---- MODULE Spec2Model ----
(***************************************************************************)
(* Identity resolution and evaluation-consistency core of the candidate    *)
(* reviewer: the policy layer (policy/filter_enforcer.py and the inline    *)
(* post-processing of AIClient.evaluate_candidate), the identity matcher   *)
(* and directory resolver (file_processor.py), the evaluation deduplicator *)
(* (output_generator.py) and the feedback/insight cadence                  *)
(* (feedback_manager.py).                                                  *)
(***************************************************************************)
EXTENDS Integers, Sequences, FiniteSets, TLC

VARIABLES
    filters,      \* screening_filters.json of the job: rule id -> rule
    polStage,     \* position of the evaluation in the policy pipeline
    polPath,      \* which enforcement code ran last
    polRaw,       \* the parsed response of the evaluation service
    polIn,        \* evaluation data handed to the last enforcement run
    polOut,       \* evaluation data after the last enforcement run
    rulesApplied, \* 'rules_applied' field of the model response
    records,      \* candidate directories of the job: existing dir name -> record
    before,       \* candidate directories before the last run that wrote them
    last,         \* the last submission and what the resolver decided
    evalFiles,    \* dir name -> evaluation.json and evaluation_history.json
    rejected,     \* dir name -> 'rejected' of candidate_meta.json
    intakeStage,  \* position of the intake run between organizing and saving
    ovA, ovB,     \* arguments of the last _identifiers_overlap call
    ovRes,        \* its result
    evals,        \* evaluations handed to _deduplicate_evaluations
    unique,       \* its result
    dedupDone,    \* whether the deduplicator has run on evals
    report,       \* the evaluations the last report or ranking was built from
    fbRecords,    \* candidate -> feedback.json content (0 = no file)
    fbSubmitted,  \* number of collect_feedback calls so far
    fbSummary,    \* total_feedback_count of feedback_summary.json
    fbTriggers,   \* submission numbers at which build_insights was called
    insights,     \* feedback_count stored in insights.json (0 = no file)
    fbPassed,     \* the feedback records the last build_insights passed to generate_insights
    jobFiles,     \* which of job_description.pdf and insights.json exist
    reBatches,    \* number of trigger_re_evaluation calls so far
    reRun,        \* the last trigger_re_evaluation call and what it did
    reStage,      \* position of a trigger_re_evaluation call taken step by step
    reQueue,      \* candidate_scores entries its loop has not finished yet
    intake,       \* candidate groups found in the intake directory, in scan order
    batchStage,   \* position of process_candidates
    batchQueue,   \* candidate_files_list still to be processed
    batchLog      \* what process_candidates did for which candidate

vars == <<filters, polStage, polPath, polRaw, polIn, polOut, rulesApplied,
          records, before, last, evalFiles, rejected, intakeStage,
          ovA, ovB, ovRes,
          evals, unique, dedupDone, report,
          fbRecords, fbSubmitted, fbSummary, fbTriggers, insights, fbPassed,
          jobFiles, reBatches, reRun, reStage, reQueue,
          intake, batchStage, batchQueue, batchLog>>

polVars == <<filters, polStage, polPath, polRaw, polIn, polOut, rulesApplied>>
resVars == <<records, before, last>>
storeVars == <<evalFiles, rejected, intakeStage>>
ovVars == <<ovA, ovB, ovRes>>
dedupVars == <<evals, unique, dedupDone, report>>
fbVars == <<fbRecords, fbSubmitted, fbSummary, fbTriggers, insights, fbPassed>>
reVars == <<jobFiles, reBatches, reRun, reStage, reQueue>>
batchVars == <<intake, batchStage, batchQueue, batchLog>>

\* what the operations of one component leave alone
otherThanPolicy == <<resVars, storeVars, ovVars, dedupVars, fbVars, reVars, batchVars>>
otherThanStore == <<polVars, ovVars, dedupVars, fbVars, reVars, batchVars>>
otherThanOverlap == <<polVars, resVars, storeVars, dedupVars, fbVars, reVars, batchVars>>
otherThanDedup == <<polVars, resVars, storeVars, ovVars, fbVars, reVars, batchVars>>
otherThanFeedback == <<polVars, resVars, storeVars, ovVars, dedupVars, reVars, batchVars>>

(***************************************************************************)
(* Bounds                                                                  *)
(***************************************************************************)
MaxCited == 2

Max(a, b) == IF a >= b THEN a ELSE b

\* Sequences over S of length at most n
RECURSIVE SeqsUpTo(_, _)
SeqsUpTo(S, n) ==
    IF n = 0 THEN {<<>>}
    ELSE LET shorter == SeqsUpTo(S, n - 1)
         IN shorter \cup {Append(s, x) : s \in {t \in shorter : Len(t) = n - 1}, x \in S}

(***************************************************************************)
(* Policy layer                                                            *)
(***************************************************************************)

\* models.RecommendationType, in the order of rec_order
rec_order == <<"STRONG_NO", "NO", "MAYBE", "YES", "STRONG_YES">>

RecommendationType == {rec_order[i] : i \in DOMAIN rec_order}

\* list.index on rec_order
RecIndex(r) == CHOOSE i \in DOMAIN rec_order : rec_order[i] = r

\* Rule ids the job may configure, and an id only the model comes up with
ConfiguredIds == {"A", "B"}
CitedIds == ConfiguredIds \cup {"Z"}

\* A rule of screening_filters.json.  set / cap: "" when the action has no
\* such key; dkind: "none" (no deduct_points), "int" or "bad" (non-numeric).
Rule(en, s, c, dk, dp) ==
    [present |-> TRUE, enabled |-> en, set |-> s, cap |-> c, dkind |-> dk, dpoints |-> dp]

NoRule == [present |-> FALSE, enabled |-> FALSE, set |-> "", cap |-> "", dkind |-> "none", dpoints |-> 0]

RuleChoices ==
    { Rule(TRUE, "", "", "int", 10),
      Rule(TRUE, "", "", "int", 20),
      Rule(TRUE, "", "MAYBE", "none", 0),
      Rule(TRUE, "", "NO", "int", 10),
      Rule(TRUE, "NO", "", "none", 0),
      Rule(TRUE, "STRONG_YES", "NO", "none", 0),
      Rule(FALSE, "STRONG_NO", "", "int", 20),
      Rule(TRUE, "EXCELLENT", "MAYBE", "bad", 0),
      Rule(TRUE, "", "TOP", "bad", 0),
      NoRule }

FilterConfigs == [ConfiguredIds -> RuleChoices]

\* detailed_notes, as far as the parsers look at it: the ids listed after
\* "Failed filters:" on the first line, and those on a later line that
\* starts with the marker.
Notes(f, l) == [first |-> f, later |-> l]

CitedLists == SeqsUpTo(CitedIds, MaxCited)

NotesChoices == {Notes(c, <<>>) : c \in CitedLists} \cup {Notes(<<>>, <<"A">>)}

RawScores == {0, 5, 80, 100}

\* Evaluation data (the parsed response dict, or an Evaluation object)
Eval(sc, rc, nt, cn) == [score |-> sc, rec |-> rc, notes |-> nt, concern |-> cn]

NoEval == Eval(0, "NO", Notes(<<>>, <<>>), "empty")

\* the field is no list, it repeats the notes prefix, it is an empty list,
\* or it names a rule that does not exist
RulesAppliedChoices(nt) ==
    { [isList |-> FALSE, ids |-> <<>>],
      [isList |-> TRUE, ids |-> nt.first],
      [isList |-> TRUE, ids |-> <<>>],
      [isList |-> TRUE, ids |-> <<"Z">>] }

\* filter_enforcer._parse_applied_filters_from_notes
_parse_applied_filters_from_notes(nt) ==
    IF nt.first # <<>> THEN nt.first ELSE nt.later

\* the fallback parser inside evaluate_candidate: marker anywhere in the
\* notes, but the ids are always cut out of the first line; when the marker
\* sits on a later line the whole first line is taken as one id
InlineParseNotes(nt) ==
    IF nt.first # <<>> THEN nt.first
    ELSE IF nt.later # <<>> THEN <<"Z">>
    ELSE <<>>

\* id_to_action of enforce_filters_on_evaluation: enabled rules only
EnforcerActionMap(fl) ==
    [id \in CitedIds |->
        IF id \in ConfiguredIds /\ fl[id].present /\ fl[id].enabled THEN fl[id] ELSE NoRule]

\* id_to_action of evaluate_candidate: every configured rule
InlineActionMap(fl) ==
    [id \in CitedIds |-> IF id \in ConfiguredIds /\ fl[id].present THEN fl[id] ELSE NoRule]

\* the loop over applied_filters: last set_recommendation seen
RECURSIVE ForcedRecommendation(_, _)
ForcedRecommendation(applied, map) ==
    IF applied = <<>> THEN ""
    ELSE LET r == map[applied[Len(applied)]]
         IN IF r.present /\ r.set # "" THEN r.set
            ELSE ForcedRecommendation(SubSeq(applied, 1, Len(applied) - 1), map)

\* the loop over applied_filters: last cap_recommendation seen
RECURSIVE CapRecommendation(_, _)
CapRecommendation(applied, map) ==
    IF applied = <<>> THEN ""
    ELSE LET r == map[applied[Len(applied)]]
         IN IF r.present /\ r.cap # "" THEN r.cap
            ELSE CapRecommendation(SubSeq(applied, 1, Len(applied) - 1), map)

\* the loop over applied_filters: total_deduction
RECURSIVE TotalDeduction(_, _)
TotalDeduction(applied, map) ==
    IF applied = <<>> THEN 0
    ELSE LET r == map[Head(applied)]
         IN (IF r.present /\ r.dkind = "int" THEN r.dpoints ELSE 0)
            + TotalDeduction(Tail(applied), map)

\* the deduction without the floor at 0
ApplyDeductionNoFloor(score, total) ==
    IF total > 0 THEN score - total ELSE score

\* 'Apply score deduction' of both enforcement blocks
ApplyDeduction(score, total) ==
    IF total > 0 THEN Max(0, score - total) ELSE score

\* the override with the cap tried before the forced recommendation
EnforcerRecommendationCapFirst(rec, forced, cap) ==
    IF cap # "" /\ rec \in RecommendationType /\ cap \in RecommendationType
       /\ RecIndex(rec) > RecIndex(cap)
    THEN cap
    ELSE IF forced # "" /\ forced \in RecommendationType THEN forced
    ELSE rec

\* recommendation override of enforce_filters_on_evaluation
EnforcerRecommendation(rec, forced, cap) ==
    IF forced # "" /\ forced \in RecommendationType THEN forced
    ELSE IF cap # "" /\ rec \in RecommendationType /\ cap \in RecommendationType
         THEN IF RecIndex(rec) > RecIndex(cap) THEN cap ELSE rec
    ELSE rec

\* recommendation override of evaluate_candidate (forced value not validated)
InlineRecommendation(rec, forced, cap) ==
    IF forced # "" THEN forced
    ELSE IF cap # "" /\ rec \in RecommendationType
         THEN IF cap \in RecommendationType /\ RecIndex(rec) > RecIndex(cap) THEN cap ELSE rec
    ELSE rec

\* policy.filter_enforcer.enforce_filters_on_evaluation
enforce_filters_on_evaluation(ev, fl) ==
    LET map == EnforcerActionMap(fl)
        applied == _parse_applied_filters_from_notes(ev.notes)
    IN IF \A id \in ConfiguredIds : ~fl[id].present THEN ev
       ELSE IF applied = <<>> THEN ev
       ELSE [ev EXCEPT
               !.score = ApplyDeduction(ev.score, TotalDeduction(applied, map)),
               !.rec = EnforcerRecommendation(ev.rec, ForcedRecommendation(applied, map),
                                              CapRecommendation(applied, map))]

\* the error Evaluation evaluate_candidate returns from its except branch
EvaluationError == Eval(0, "NO", Notes(<<>>, <<>>), "Evaluation Error")

\* the Evaluation evaluate_candidate returns when the request failed
ApiError == Eval(0, "NO", Notes(<<>>, <<>>), "API Error")

\* the post-processing block of AIClient.evaluate_candidate followed by the
\* construction of the Evaluation (RecommendationType(...) raises on a
\* value outside the enum, which the except branch turns into an error
\* evaluation)
InlineEnforce(data, ra, fl) ==
    LET map == InlineActionMap(fl)
        applied == IF ra.isList THEN ra.ids ELSE InlineParseNotes(data.notes)
        corrected ==
            IF applied = <<>> THEN data
            ELSE [data EXCEPT
                    !.score = ApplyDeduction(data.score, TotalDeduction(applied, map)),
                    !.rec = InlineRecommendation(data.rec, ForcedRecommendation(applied, map),
                                                 CapRecommendation(applied, map))]
    IN IF corrected.rec \in RecommendationType THEN corrected ELSE EvaluationError

PolicyInit ==
    /\ filters \in FilterConfigs
    /\ polStage = "idle"
    /\ polPath = "none"
    /\ polRaw = NoEval
    /\ polIn = NoEval
    /\ polOut = NoEval
    /\ rulesApplied = [isList |-> FALSE, ids |-> <<>>]

\* the evaluation service answers: a parsed response
ModelResponds ==
    /\ polStage = "idle"
    /\ \E sc \in RawScores, rc \in RecommendationType, nt \in NotesChoices :
         /\ polOut' = Eval(sc, rc, nt, "none")
         /\ polRaw' = Eval(sc, rc, nt, "none")
         /\ \E ra \in RulesAppliedChoices(nt) : rulesApplied' = ra
    /\ polStage' = "raw"
    /\ polPath' = "none"
    /\ polIn' = NoEval
    /\ UNCHANGED filters
    /\ UNCHANGED otherThanPolicy

\* the evaluation service fails: evaluate_candidate returns the error evaluation
RequestFails ==
    /\ polStage = "idle"
    /\ polOut' = ApiError
    /\ polIn' = NoEval
    /\ polStage' = "evaluated"
    /\ polPath' = "none"
    /\ UNCHANGED <<filters, polRaw, rulesApplied>>
    /\ UNCHANGED otherThanPolicy

\* AIClient.evaluate_candidate after a successful request
EvaluateCandidate ==
    /\ polStage = "raw"
    /\ polIn' = polOut
    /\ polOut' = InlineEnforce(polOut, rulesApplied, filters)
    /\ polStage' = "evaluated"
    /\ polPath' = "inline"
    /\ UNCHANGED <<filters, polRaw, rulesApplied>>
    /\ UNCHANGED otherThanPolicy

\* enforce_filters_on_evaluation on the Evaluation evaluate_candidate
\* returned, as trigger_re_evaluation calls it before it stores the result
\* with _save_evaluation_with_history
EnforceFilters ==
    /\ polStage = "evaluated"
    /\ polIn' = polOut
    /\ polOut' = enforce_filters_on_evaluation(polOut, filters)
    /\ polStage' = "enforced"
    /\ polPath' = "enforcer"
    /\ UNCHANGED <<filters, polRaw, rulesApplied>>
    /\ UNCHANGED otherThanPolicy

\* process_candidates / process_single_candidate: evaluate_candidate is
\* called without screening filters, which skips the post-processing block,
\* and the Evaluation goes to save_evaluation_json as it is
EvaluateAtIntake ==
    /\ polStage = "raw"
    /\ polIn' = polOut
    /\ polOut' = IF polOut.rec \in RecommendationType THEN polOut ELSE EvaluationError
    /\ polStage' = "stored"
    /\ polPath' = "intake"
    /\ UNCHANGED <<filters, polRaw, rulesApplied>>
    /\ UNCHANGED otherThanPolicy

PolicyNext ==
    \/ ModelResponds
    \/ RequestFails
    \/ EvaluateCandidate
    \/ EnforceFilters
    \/ EvaluateAtIntake

(***************************************************************************)
(* Identity matcher and directory resolver                                 *)
(***************************************************************************)
MaxDirs == 3
MaxEmail == 2

Keys == {"emails", "phones", "linkedin", "github"}

\* identifiers are numbered so that the sorted lists of candidate_meta.json
\* can be written down
IdUniverse ==
    [emails |-> 1..MaxEmail, phones |-> {1}, linkedin |-> {1}, github |-> {1}]

Identity(e, p, l, g) == [emails |-> e, phones |-> p, linkedin |-> l, github |-> g]

Identities ==
    {Identity(e, p, l, g) : e \in SUBSET IdUniverse.emails, p \in SUBSET IdUniverse.phones,
                            l \in SUBSET IdUniverse.linkedin, g \in SUBSET IdUniverse.github}

NoIdentity == Identity({}, {}, {}, {})

\* identities the submitted documents carry in the resolver runs
SubmitIdentities ==
    { NoIdentity,
      Identity({1}, {}, {}, {}),
      Identity({2}, {}, {}, {}),
      Identity({1}, {1}, {}, {}),
      Identity({}, {1}, {}, {1}) }

\* the overlap test without the emptiness guard, comparing whole categories
IdentifiersOverlapWholeCategory(a, b) ==
    \E key \in Keys : a[key] = b[key]

\* FileProcessor._identifiers_overlap
_identifiers_overlap(a, b) ==
    \E key \in Keys : a[key] # {} /\ b[key] # {} /\ (a[key] \cap b[key]) # {}

\* FileProcessor._has_any_identifiers
_has_any_identifiers(identifiers) == \E key \in Keys : identifiers[key] # {}

\* sorted(list(v))
RECURSIVE Sorted(_)
Sorted(S) ==
    IF S = {} THEN <<>>
    ELSE LET m == CHOOSE x \in S : \A y \in S : x <= y
         IN <<m>> \o Sorted(S \ {m})

\* set(data.get(key, []))
ToSet(list) == {list[i] : i \in DOMAIN list}

\* FileProcessor._save_candidate_metadata: the content of candidate_meta.json
_save_candidate_metadata(identifiers) == [key \in Keys |-> Sorted(identifiers[key])]

\* the identifier sets of one record of _load_all_candidate_metadata
LoadIdentity(meta) == [key \in Keys |-> ToSet(meta[key])]

\* Declared candidate names
Names == {"ann", "bob"}

\* A directory name: name, name__<n>, name__DUPLICATE_CHECK (n = 1) or
\* name__DUPLICATE_CHECK_<n>
Dir(b, k, n) == [base |-> b, kind |-> k, n |-> n]
Plain(name) == Dir(name, "plain", 0)
Numbered(name, n) == Dir(name, "num", n)
DuplicateCheck(name, n) == Dir(name, "dup", n)

NoDir == Dir("", "none", 0)

\* A candidate directory: candidate_meta.json and the name written in
\* DUPLICATE_WARNING.txt (NoDir: no warning file)
Record(m, w) == [meta |-> m, warning |-> w]

\* the job has no candidate directory yet
NoRecords == [d \in {} |-> Record(_save_candidate_metadata(NoIdentity), NoDir)]

\* directories found by iterdir()
Existing(recs) == DOMAIN recs

\* Path(...).exists()
Exists(d, recs) == d \in DOMAIN recs

\* the loop 'while Path(new_path).exists()' of the duplicate branch
DuplicateCheckName(name, recs) ==
    LET n == CHOOSE k \in 1..(MaxDirs + 1) :
                 /\ ~Exists(DuplicateCheck(name, k), recs)
                 /\ \A j \in 1..(k - 1) : Exists(DuplicateCheck(name, j), recs)
    IN DuplicateCheck(name, n)

\* the loop 'while True' of the name-collision branch
NextSuffixName(name, recs) ==
    LET n == CHOOSE k \in 2..(MaxDirs + 1) :
                 /\ ~Exists(Numbered(name, k), recs)
                 /\ \A j \in 2..(k - 1) : Exists(Numbered(name, j), recs)
    IN Numbered(name, n)

\* matching = [rec for rec in existing_candidates if overlap]
Matching(identifiers, recs) ==
    {d \in Existing(recs) : _identifiers_overlap(identifiers, LoadIdentity(recs[d].meta))}

\* the overlap branch flagging every overlapping submission
OverlapBranchAlwaysFlag(name, first, recs) ==
    LET new == CHOOSE d \in {[base |-> name, kind |-> "dup", n |-> k] : k \in 1..(MaxDirs + 1)} :
                  d \notin DOMAIN recs
    IN [target |-> new,
        recs |-> [recs EXCEPT ![first].warning = [base |-> name, kind |-> "plain", n |-> 0]]
                   @@ (new :> [meta |-> [key \in Keys |-> <<>>], warning |-> first])]

\* FileProcessor._determine_target_directory when a record overlaps;
\* first is matching[0].  Returns the target and the records after the
\* warnings have been written.
OverlapBranch(name, first, recs) ==
    IF first # Plain(name)
    THEN LET new == DuplicateCheckName(name, recs)
         IN [target |-> new,
             recs |-> [recs EXCEPT ![first].warning = Plain(name)]
                        @@ (new :> Record(_save_candidate_metadata(NoIdentity), first))]
    ELSE [target |-> first, recs |-> recs]

\* the no-overlap branch numbering the new record by the count of records
NoOverlapBranchAfterLast(name, identifiers, recs) ==
    IF Exists(Plain(name), recs)
    THEN IF _has_any_identifiers(identifiers)
            /\ _has_any_identifiers(LoadIdentity(recs[Plain(name)].meta))
         THEN Numbered(name, Cardinality(DOMAIN recs) + 1)
         ELSE Plain(name)
    ELSE Plain(name)

\* FileProcessor._determine_target_directory when no record overlaps
NoOverlapBranch(name, identifiers, recs) ==
    IF Exists(Plain(name), recs)
    THEN IF _has_any_identifiers(identifiers)
            /\ _has_any_identifiers(LoadIdentity(recs[Plain(name)].meta))
         THEN NextSuffixName(name, recs)
         ELSE Plain(name)
    ELSE Plain(name)

\* mkdir of the target and _save_candidate_metadata
StoreSubmission(target, identifiers, recs) ==
    IF Exists(target, recs)
    THEN [recs EXCEPT ![target].meta = _save_candidate_metadata(identifiers)]
    ELSE recs @@ (target :> Record(_save_candidate_metadata(identifiers), NoDir))

\* overall_score of the evaluations written in the store runs
Scores == {40, 70}

\* no evaluation.json
NoScore == -1

\* evaluation.json (its overall_score) and evaluation_history.json of one
\* candidate directory
EvalFile(ev, hist) == [evaluation |-> ev, history |-> hist]

NoEvalFile == EvalFile(NoScore, <<>>)

NoEvalFiles == [d \in {} |-> NoEvalFile]

NoRejected == [d \in {} |-> FALSE]

\* organize_candidate_files dropping the evaluation of the directory it
\* resolves to
EvalFilesAfterOrganizeFresh(ef, target, recs) ==
    [d \in DOMAIN recs |-> IF d \in DOMAIN ef /\ d # target THEN ef[d] ELSE [evaluation |-> -1, history |-> <<>>]]

\* organize_candidate_files writes neither evaluation.json nor
\* evaluation_history.json: a directory it creates has none
EvalFilesAfterOrganize(ef, target, recs) ==
    [d \in DOMAIN recs |-> IF d \in DOMAIN ef THEN ef[d] ELSE NoEvalFile]

\* _save_candidate_metadata writes candidate_meta.json of the target anew,
\* with the identifier lists only
RejectedAfterOrganize(rj, target, recs) ==
    [d \in DOMAIN recs |-> IF d \in DOMAIN rj /\ d # target THEN rj[d] ELSE FALSE]

Submission(name, identifiers, first, target) ==
    [name |-> name, ids |-> identifiers, first |-> first, target |-> target]

NoSubmission == Submission("", NoIdentity, NoDir, NoDir)

ResolverInit ==
    /\ records = NoRecords
    /\ before = NoRecords
    /\ last = NoSubmission
    /\ evalFiles = NoEvalFiles
    /\ rejected = NoRejected
    /\ intakeStage = "idle"

\* FileProcessor.organize_candidate_files for a submission whose identifiers
\* overlap an existing record; the scan order of iterdir() decides which
\* overlapping record is matching[0]
OrganizeOverlapping ==
    \E name \in Names, identifiers \in SubmitIdentities :
      /\ Matching(identifiers, records) # {}
      /\ \E first \in Matching(identifiers, records) :
           LET res == OverlapBranch(name, first, records)
           IN /\ Cardinality(Existing(res.recs)) <= MaxDirs
              /\ records' = StoreSubmission(res.target, identifiers, res.recs)
              /\ last' = Submission(name, identifiers, first, res.target)
              /\ evalFiles' = EvalFilesAfterOrganize(evalFiles, res.target, records')
              /\ rejected' = RejectedAfterOrganize(rejected, res.target, records')
      /\ before' = records
      /\ intakeStage' = "organized"
      /\ UNCHANGED otherThanStore

\* FileProcessor.organize_candidate_files for a submission that overlaps no
\* existing record
OrganizeDistinct ==
    \E name \in Names, identifiers \in SubmitIdentities :
      /\ Matching(identifiers, records) = {}
      /\ LET target == NoOverlapBranch(name, identifiers, records)
         IN /\ Cardinality(Existing(records) \cup {target}) <= MaxDirs
            /\ records' = StoreSubmission(target, identifiers, records)
            /\ last' = Submission(name, identifiers, NoDir, target)
            /\ evalFiles' = EvalFilesAfterOrganize(evalFiles, target, records')
            /\ rejected' = RejectedAfterOrganize(rejected, target, records')
      /\ before' = records
      /\ intakeStage' = "organized"
      /\ UNCHANGED otherThanStore

\* OutputGenerator.save_evaluation_json
save_evaluation_json(ef, target, score) == [ef EXCEPT ![target].evaluation = score]

\* process_candidates / process_single_candidate after
\* organize_candidate_files: evaluate_candidate for the organized candidate
\* and save_evaluation_json into its directory
SaveEvaluation ==
    /\ intakeStage = "organized"
    /\ \E score \in Scores : evalFiles' = save_evaluation_json(evalFiles, last.target, score)
    /\ intakeStage' = "idle"
    /\ UNCHANGED <<records, before, last, rejected>>
    /\ UNCHANGED otherThanStore

ResolverNext ==
    \/ OrganizeOverlapping
    \/ OrganizeDistinct

\* identities of the submissions of the intake runs that are followed up
\* to the stored evaluation
IntakeIdentities == {Identity({1}, {}, {}, {}), Identity({2}, {}, {}, {})}

\* organize_candidate_files as the first step of process_candidates /
\* process_single_candidate
IntakeOrganize ==
    /\ OrganizeOverlapping \/ OrganizeDistinct
    /\ last'.ids \in IntakeIdentities

IntakeNext ==
    \/ IntakeOrganize
    \/ SaveEvaluation

\* CandidateReviewer._mark_candidate_rejected, called by provide_feedback
\* for a candidate that has an evaluation: 'rejected' is added to the
\* content of candidate_meta.json
MarkCandidateRejected ==
    /\ intakeStage = "idle"
    /\ \E d \in DOMAIN records :
         /\ evalFiles[d].evaluation # NoScore
         /\ ~rejected[d]
         /\ rejected' = [rejected EXCEPT ![d] = TRUE]
    /\ UNCHANGED <<records, before, last, evalFiles, intakeStage>>
    /\ UNCHANGED otherThanStore

RejectionNext ==
    \/ IntakeOrganize
    \/ SaveEvaluation
    \/ MarkCandidateRejected

\* the identity matcher on its own: any two identities
OverlapInit ==
    /\ ovA \in Identities
    /\ ovB \in Identities
    /\ ovRes = "unknown"

CheckOverlap ==
    /\ ovRes = "unknown"
    /\ ovRes' = IF _identifiers_overlap(ovA, ovB) THEN "overlap" ELSE "disjoint"
    /\ UNCHANGED <<ovA, ovB>>
    /\ UNCHANGED otherThanOverlap

OverlapNext == CheckOverlap

(***************************************************************************)
(* Evaluation deduplicator                                                 *)
(***************************************************************************)
MaxEvals == 3
MaxTime == 2

\* A candidate name is the sequence of its parts between underscores,
\* name.split("_"); "" is an empty part (as in "ann__2").
CandidateNames ==
    { <<"ann">>, <<"lee">>, <<"ann", "lee">>, <<"lee", "ann">>, <<"Lee">>,
      <<"ann", "resume">>, <<"ann", "", "2">> }

\* str.lower on one part
Lower(part) == IF part = "Lee" THEN "lee" ELSE part

\* position of a lower-case part in the ordering of sorted()
PartRank(part) ==
    CASE part = "" -> 0
      [] part = "2" -> 1
      [] part = "ann" -> 2
      [] part = "cover" -> 3
      [] part = "lee" -> 4
      [] part = "resume" -> 5
      [] OTHER -> 6

type_suffixes == {"resume", "application", "cover", "coverletter"}

\* sorted(parts)
RECURSIVE SortParts(_)
SortParts(parts) ==
    IF parts = <<>> THEN <<>>
    ELSE LET i == CHOOSE k \in DOMAIN parts :
                     \A j \in DOMAIN parts : PartRank(parts[k]) <= PartRank(parts[j])
         IN <<parts[i]>> \o SortParts(SubSeq(parts, 1, i - 1) \o SubSeq(parts, i + 1, Len(parts)))

\* [part for part in parts if part]
RECURSIVE NonEmptyParts(_)
NonEmptyParts(parts) ==
    IF parts = <<>> THEN <<>>
    ELSE (IF Head(parts) # "" THEN <<Head(parts)>> ELSE <<>>) \o NonEmptyParts(Tail(parts))

\* OutputGenerator._normalize_candidate_name, the result again as parts
_normalize_candidate_name(name) ==
    LET lowered == [i \in DOMAIN name |-> Lower(name[i])]
        normalized ==
            IF Len(lowered) >= 2 /\ lowered[Len(lowered)] \in type_suffixes
            THEN SubSeq(lowered, 1, Len(lowered) - 1)
            ELSE lowered
        parts == NonEmptyParts(normalized)
    IN IF parts = <<>> THEN normalized
       ELSE IF Len(parts) = 1 THEN parts
       ELSE SortParts(parts)

\* OutputGenerator._are_same_candidate
_are_same_candidate(name1, name2) ==
    LET norm1 == _normalize_candidate_name(name1)
        norm2 == _normalize_candidate_name(name2)
        parts1 == ToSet(norm1)
        parts2 == ToSet(norm2)
    IN \/ norm1 = norm2
       \/ /\ (parts1 \cap parts2) # {}
          /\ (parts1 \subseteq parts2 \/ parts2 \subseteq parts1)

Evaluation(name, ts) == [candidate_name |-> name, timestamp |-> ts]

Evaluations == {Evaluation(n, t) : n \in CandidateNames, t \in 1..MaxTime}

\* index of the first entry of the unique list that is the same candidate, 0 if none
ExistingIndex(evaluation, uniq) ==
    IF \E i \in DOMAIN uniq : _are_same_candidate(evaluation.candidate_name, uniq[i].candidate_name)
    THEN CHOOSE i \in DOMAIN uniq :
            /\ _are_same_candidate(evaluation.candidate_name, uniq[i].candidate_name)
            /\ \A j \in 1..(i - 1) :
                   ~_are_same_candidate(evaluation.candidate_name, uniq[j].candidate_name)
    ELSE 0

\* should_replace: parts of the raw names first, then the timestamps
ShouldReplace(evaluation, existing_eval) ==
    LET new_parts == Len(evaluation.candidate_name)
        existing_parts == Len(existing_eval.candidate_name)
    IN IF new_parts > existing_parts THEN TRUE
       ELSE IF existing_parts > new_parts THEN FALSE
       ELSE evaluation.timestamp > existing_eval.timestamp

\* one pass of the loop of _deduplicate_evaluations
DedupStep(uniq, evaluation) ==
    LET existing_index == ExistingIndex(evaluation, uniq)
    IN IF existing_index # 0
       THEN IF ShouldReplace(evaluation, uniq[existing_index])
            THEN [uniq EXCEPT ![existing_index] = evaluation]
            ELSE uniq
       ELSE Append(uniq, evaluation)

\* OutputGenerator._deduplicate_evaluations
RECURSIVE DedupFrom(_, _)
DedupFrom(uniq, rest) ==
    IF rest = <<>> THEN uniq
    ELSE DedupFrom(DedupStep(uniq, Head(rest)), Tail(rest))

_deduplicate_evaluations(evaluations) == DedupFrom(<<>>, evaluations)

\* no report or ranking built yet
NoReport == [by |-> "none", evaluations |-> <<>>]

DedupInit ==
    /\ evals = <<>>
    /\ unique = <<>>
    /\ dedupDone = FALSE
    /\ report = NoReport

\* one more evaluation.json found by the directory scan
LoadEvaluation ==
    /\ ~dedupDone
    /\ Len(evals) < MaxEvals
    /\ \E e \in Evaluations : evals' = Append(evals, e)
    /\ UNCHANGED <<unique, dedupDone, report>>
    /\ UNCHANGED otherThanDedup

\* the return of load_evaluations_for_job
Deduplicate ==
    /\ ~dedupDone
    /\ unique' = _deduplicate_evaluations(evals)
    /\ dedupDone' = TRUE
    /\ UNCHANGED <<evals, report>>
    /\ UNCHANGED otherThanDedup

DedupNext ==
    \/ LoadEvaluation
    \/ Deduplicate

(***************************************************************************)
(* Reports and rankings                                                    *)
(***************************************************************************)
\* the evaluation.json files of a job as the directory scan finds them:
\* one per candidate directory, candidate_name being the directory name
DiskEvaluations ==
    {es \in SeqsUpTo(Evaluations, MaxEvals) :
        /\ es # <<>>
        /\ \A i, j \in DOMAIN es : i # j => es[i].candidate_name # es[j].candidate_name}

\* OutputGenerator.load_evaluations_for_job
load_evaluations_for_job(disk) == _deduplicate_evaluations(disk)

\* process_candidates: existing_names and the loop adding the evaluations
\* of the batch that are not among them
WithBatchEvaluations(all_evaluations, evaluations) ==
    LET existing_names == {all_evaluations[i].candidate_name : i \in DOMAIN all_evaluations}
    IN all_evaluations
         \o SelectSeq(evaluations, LAMBDA ev : ev.candidate_name \notin existing_names)

ReportsInit ==
    /\ evals \in DiskEvaluations
    /\ unique = <<>>
    /\ dedupDone = FALSE
    /\ report = NoReport

\* CandidateReviewer.show_candidates and open_reports: the ranking and the
\* HTML report from load_evaluations_for_job
ShowCandidates ==
    /\ report = NoReport
    /\ report' = [by |-> "show_candidates", evaluations |-> load_evaluations_for_job(evals)]
    /\ UNCHANGED <<evals, unique, dedupDone>>
    /\ UNCHANGED otherThanDedup

\* the end of process_candidates: generate_csv and generate_html_report
\* from load_evaluations_for_job and the evaluations of the batch; batch:
\* the directories the batch saved an evaluation into
ReportAfterIntake ==
    /\ report = NoReport
    /\ \E batch \in (SUBSET DOMAIN evals) \ {{}} :
         LET evaluations == SelectSeq(evals, LAMBDA ev : \E i \in batch : evals[i] = ev)
             all_evaluations == load_evaluations_for_job(evals)
         IN report' = [by |-> "process_candidates",
                       evaluations |-> WithBatchEvaluations(all_evaluations, evaluations)]
    /\ UNCHANGED <<evals, unique, dedupDone>>
    /\ UNCHANGED otherThanDedup

\* the end of trigger_re_evaluation: generate_csv and generate_html_report
\* from every evaluation.json of the job
ReportAfterReEvaluation ==
    /\ report = NoReport
    /\ report' = [by |-> "trigger_re_evaluation", evaluations |-> evals]
    /\ UNCHANGED <<evals, unique, dedupDone>>
    /\ UNCHANGED otherThanDedup

ReportsNext ==
    \/ ShowCandidates
    \/ ReportAfterIntake
    \/ ReportAfterReEvaluation

(***************************************************************************)
(* Feedback / insight cadence                                              *)
(***************************************************************************)
MaxFeedback == 5

\* candidates of the job that have an evaluation.json
Reviewed == {"ann", "bob", "cid"}

\* FeedbackManager.get_feedback_history: one record per feedback.json
get_feedback_history(fb) == {c \in Reviewed : fb[c] # 0}

\* the test of _maybe_generate_insights
InsightsDue(feedback_count) == feedback_count >= 2 /\ feedback_count % 2 = 0

\* the submissions whose records get_feedback_history returns
FeedbackRecords(fb) == {fb[c] : c \in get_feedback_history(fb)}

\* build_insights has not called generate_insights yet
NoInsightRun == [at |-> 0, records |-> {}]

FeedbackInit ==
    /\ fbRecords = [c \in Reviewed |-> 0]
    /\ fbSubmitted = 0
    /\ fbSummary = 0
    /\ fbTriggers = {}
    /\ insights = 0
    /\ fbPassed = NoInsightRun

\* FeedbackManager.collect_feedback: feedback.json of the candidate is
\* written anew, the job summary is updated, _maybe_generate_insights runs;
\* build_insights stores insights only when the job context loads
CollectFeedback ==
    /\ fbSubmitted < MaxFeedback
    /\ \E c \in Reviewed, context \in BOOLEAN :
         LET n == fbSubmitted + 1
             fb == [fbRecords EXCEPT ![c] = n]
             feedback_count == Cardinality(get_feedback_history(fb))
         IN /\ fbRecords' = fb
            /\ fbSubmitted' = n
            /\ fbSummary' = fbSummary + 1
            /\ fbTriggers' = IF InsightsDue(feedback_count) THEN fbTriggers \cup {n} ELSE fbTriggers
            /\ insights' = IF InsightsDue(feedback_count) /\ context THEN feedback_count ELSE insights
            /\ fbPassed' = IF InsightsDue(feedback_count) /\ context
                           THEN [at |-> n, records |-> FeedbackRecords(fb)]
                           ELSE fbPassed
    /\ UNCHANGED otherThanFeedback

FeedbackNext == CollectFeedback

(***************************************************************************)
(* Re-evaluation                                                           *)
(***************************************************************************)
MaxIntake == 2

otherThanReeval == <<polVars, ovVars, dedupVars, fbVars, batchVars>>

\* the directories organize_candidate_files may leave behind for one
\* submission, one for every record iterdir() may list first
Organized(recs, name, identifiers) ==
    IF Matching(identifiers, recs) # {}
    THEN {StoreSubmission(OverlapBranch(name, first, recs).target, identifiers,
                          OverlapBranch(name, first, recs).recs) :
              first \in Matching(identifiers, recs)}
    ELSE {StoreSubmission(NoOverlapBranch(name, identifiers, recs), identifiers, recs)}

\* the stores that at most n submissions leave behind
RECURSIVE IntakeStores(_)
IntakeStores(n) ==
    IF n = 0 THEN {NoRecords}
    ELSE LET prev == IntakeStores(n - 1)
         IN prev \cup UNION {Organized(recs, name, identifiers) :
                                 recs \in prev, name \in Names, identifiers \in IntakeIdentities}

\* no trigger_re_evaluation call yet
NoRun ==
    [ran |-> FALSE, given |-> FALSE, names |-> {}, queue |-> <<>>, unreadable |-> {},
     calls |-> <<>>, prior |-> NoEvalFiles]

\* FeedbackManager._is_candidate_rejected
_is_candidate_rejected(rj, d) == d \in DOMAIN rj /\ rj[d]

\* the selection without the rejection test
SelectedIgnoringRejection(recs, rj, given, names) ==
    {d \in DOMAIN recs : given => d \in names}

\* the directories trigger_re_evaluation puts into candidate_scores;
\* given: candidate_names is a non-empty list
Selected(recs, rj, given, names) ==
    {d \in DOMAIN recs : IF given THEN d \in names ELSE ~_is_candidate_rejected(rj, d)}

\* the score read from evaluation.json for sorting, 0 without the file
StoredScore(ef, d) == IF ef[d].evaluation = NoScore THEN 0 ELSE ef[d].evaluation

\* the orders in which iterdir() may list the directories of S
Orders(S) ==
    {q \in [1..Cardinality(S) -> S] : \A i, j \in 1..Cardinality(S) : i # j => q[i] # q[j]}

\* the sort with the lowest score first
SortedByScoreAscending(q, ef) ==
    \A i, j \in DOMAIN q : i < j => StoredScore(ef, q[i]) <= StoredScore(ef, q[j])

\* candidate_scores.sort(key=lambda x: x[0], reverse=True)
SortedByScore(q, ef) ==
    \A i, j \in DOMAIN q : i < j => StoredScore(ef, q[i]) >= StoredScore(ef, q[j])

\* FeedbackManager._cleanup_stale_duplicate_warnings
_cleanup_stale_duplicate_warnings(recs) ==
    [d \in DOMAIN recs |->
        IF recs[d].warning # NoDir /\ ~Exists(recs[d].warning, recs)
        THEN [recs[d] EXCEPT !.warning = NoDir]
        ELSE recs[d]]

\* FeedbackManager._save_evaluation_with_history
_save_evaluation_with_history(file, score) ==
    EvalFile(score, IF file.evaluation # NoScore
                    THEN Append(file.history, file.evaluation)
                    ELSE file.history)

\* the candidates of the queue that _load_candidate_data could load, in the
\* order of the evaluate_candidate calls
RECURSIVE Evaluated(_, _)
Evaluated(q, unreadable) ==
    IF q = <<>> THEN <<>>
    ELSE (IF Head(q) \in unreadable THEN <<>> ELSE <<Head(q)>>) \o Evaluated(Tail(q), unreadable)

\* the state before any trigger_re_evaluation call, in the specifications
\* that have none
ReevalIdle ==
    /\ jobFiles = [context |-> TRUE, insights |-> FALSE]
    /\ reBatches = 0
    /\ reRun = NoRun
    /\ reStage = "idle"
    /\ reQueue = <<>>

\* a store left by intake: every directory with or without an evaluation,
\* rejected or not; the job with or without description and insights
ReevalInit ==
    /\ records \in IntakeStores(MaxIntake)
    /\ before = records
    /\ last = NoSubmission
    /\ evalFiles \in [DOMAIN records -> {EvalFile(score, <<>>) : score \in Scores \cup {NoScore}}]
    /\ rejected \in [DOMAIN records -> BOOLEAN]
    /\ intakeStage = "idle"
    /\ jobFiles \in [context : BOOLEAN, insights : BOOLEAN]
    /\ reBatches = 0
    /\ reRun = NoRun
    /\ reStage = "idle"
    /\ reQueue = <<>>

\* FeedbackManager.trigger_re_evaluation(job_name, candidate_names)
\* as one step, every evaluate_candidate call returning a scored evaluation
TriggerReEvaluation ==
    /\ reBatches = 0
    /\ \E given \in BOOLEAN, names \in SUBSET DOMAIN records :
         /\ given <=> names # {}
         /\ IF ~jobFiles.context
            THEN /\ reRun' = [NoRun EXCEPT !.ran = TRUE, !.given = given, !.names = names,
                                           !.prior = evalFiles]
                 /\ UNCHANGED <<records, evalFiles>>
            ELSE LET selected == Selected(records, rejected, given, names)
                 IN \E queue \in Orders(selected), unreadable \in SUBSET selected,
                       new \in [selected -> Scores] :
                      /\ SortedByScore(queue, evalFiles)
                      /\ records' = _cleanup_stale_duplicate_warnings(records)
                      /\ evalFiles' =
                           [d \in DOMAIN evalFiles |->
                               IF d \in selected \ unreadable
                               THEN _save_evaluation_with_history(evalFiles[d], new[d])
                               ELSE evalFiles[d]]
                      /\ reRun' = [ran |-> TRUE, given |-> given, names |-> names,
                                   queue |-> queue, unreadable |-> unreadable,
                                   calls |-> Evaluated(queue, unreadable),
                                   prior |-> evalFiles]
    /\ before' = records
    /\ reBatches' = reBatches + 1
    /\ UNCHANGED <<last, rejected, intakeStage, jobFiles, reStage, reQueue>>
    /\ UNCHANGED otherThanReeval

ReevalNext == TriggerReEvaluation

(***************************************************************************)
(* Re-evaluation step by step                                              *)
(***************************************************************************)
\* the evaluation evaluate_candidate returns for a failed service call:
\* overall_score 0 with an "API Error" concern; no evaluation of a call that
\* succeeded has score 0 in these runs
ApiErrorEvaluation == 0

\* what evaluate_candidate may return
Outcomes == Scores \cup {ApiErrorEvaluation}

\* the history list _save_evaluation_with_history builds before it writes
HistoryToSave(file) ==
    IF file.evaluation # NoScore THEN Append(file.history, file.evaluation) ELSE file.history

\* trigger_re_evaluation up to its loop
StartReEvaluation ==
    /\ reStage = "idle"
    /\ reBatches = 0
    /\ \E given \in BOOLEAN, names \in SUBSET DOMAIN records :
         /\ given <=> names # {}
         /\ IF ~jobFiles.context
            THEN /\ reRun' = [NoRun EXCEPT !.ran = TRUE, !.given = given, !.names = names,
                                           !.prior = evalFiles]
                 /\ reStage' = "done"
                 /\ reQueue' = <<>>
                 /\ UNCHANGED records
            ELSE \E queue \in Orders(Selected(records, rejected, given, names)) :
                   /\ SortedByScore(queue, evalFiles)
                   /\ records' = _cleanup_stale_duplicate_warnings(records)
                   /\ reRun' = [ran |-> TRUE, given |-> given, names |-> names,
                                queue |-> queue, unreadable |-> {}, calls |-> <<>>,
                                prior |-> evalFiles]
                   /\ reStage' = "loop"
                   /\ reQueue' = queue
    /\ before' = records
    /\ UNCHANGED <<last, evalFiles, rejected, intakeStage, jobFiles, reBatches>>
    /\ UNCHANGED otherThanReeval

\* _load_candidate_data returns None: the loop goes on to the next entry
PassOverCandidate ==
    /\ reStage = "loop"
    /\ reQueue # <<>>
    /\ reRun' = [reRun EXCEPT !.unreadable = @ \cup {Head(reQueue)}]
    /\ reQueue' = Tail(reQueue)
    /\ UNCHANGED <<resVars, storeVars, jobFiles, reBatches, reStage>>
    /\ UNCHANGED otherThanReeval

\* evaluate_candidate, enforce_filters_on_evaluation and the first write of
\* _save_evaluation_with_history: evaluation.json
WriteEvaluation ==
    /\ reStage = "loop"
    /\ reQueue # <<>>
    /\ \E outcome \in Outcomes :
         evalFiles' = [evalFiles EXCEPT ![Head(reQueue)].evaluation = outcome]
    /\ reRun' = [reRun EXCEPT !.calls = Append(@, Head(reQueue))]
    /\ reStage' = "saving"
    /\ UNCHANGED <<resVars, rejected, intakeStage, jobFiles, reBatches, reQueue>>
    /\ UNCHANGED otherThanReeval

\* the second write of _save_evaluation_with_history:
\* evaluation_history.json
WriteHistory ==
    /\ reStage = "saving"
    /\ evalFiles' = [evalFiles EXCEPT
                        ![Head(reQueue)].history = HistoryToSave(reRun.prior[Head(reQueue)])]
    /\ reQueue' = Tail(reQueue)
    /\ reStage' = "loop"
    /\ UNCHANGED <<resVars, rejected, intakeStage, jobFiles, reBatches, reRun>>
    /\ UNCHANGED otherThanReeval

\* the loop is through
FinishReEvaluation ==
    /\ reStage = "loop"
    /\ reQueue = <<>>
    /\ reStage' = "done"
    /\ reBatches' = reBatches + 1
    /\ UNCHANGED <<resVars, storeVars, jobFiles, reRun, reQueue>>
    /\ UNCHANGED otherThanReeval

\* the process is interrupted or killed, or a write raises: nothing in
\* trigger_re_evaluation catches it and the run ends where it is
InterruptReEvaluation ==
    /\ reStage \in {"loop", "saving"}
    /\ reStage' = "stopped"
    /\ UNCHANGED <<resVars, storeVars, jobFiles, reBatches, reRun, reQueue>>
    /\ UNCHANGED otherThanReeval

ReevalStepsNext ==
    \/ StartReEvaluation
    \/ PassOverCandidate
    \/ WriteEvaluation
    \/ WriteHistory
    \/ FinishReEvaluation
    \/ InterruptReEvaluation

(***************************************************************************)
(* Intake batch                                                            *)
(***************************************************************************)
MaxBatch == 3

otherThanBatch == <<polVars, resVars, storeVars, ovVars, dedupVars, fbVars, reVars>>

\* the candidates of a batch
BatchCandidates == 1..MaxBatch

\* the files of one candidate group: all readable, no resume among them (or
\* the resume over the size limit), or a file whose text cannot be extracted
FileConditions == {"ok", "no_resume", "unreadable"}

CandidateFiles(c, cond) == [candidate_name |-> c, files |-> cond]

\* the groups _group_files_by_candidate may return, in any order
IntakeBatches ==
    {b \in SeqsUpTo([candidate_name : BatchCandidates, files : FileConditions], MaxBatch) :
        /\ b # <<>>
        /\ \A i, j \in DOMAIN b : i # j => b[i].candidate_name # b[j].candidate_name}

\* the groups that have a resume, in order
RECURSIVE WithResume(_)
WithResume(b) ==
    IF b = <<>> THEN <<>>
    ELSE (IF Head(b).files # "no_resume" THEN <<Head(b)>> ELSE <<>>) \o WithResume(Tail(b))

NoBatchLog ==
    [errors |-> {}, organized |-> {}, evaluated |-> {}, processed |-> {}, failed |-> {},
     stopped |-> FALSE]

BatchIdle ==
    /\ intake = <<>>
    /\ batchStage = "idle"
    /\ batchQueue = <<>>
    /\ batchLog = NoBatchLog

BatchInit ==
    /\ intake \in IntakeBatches
    /\ batchStage = "intake"
    /\ batchQueue = <<>>
    /\ batchLog = NoBatchLog

\* process_candidates up to the loop: FileProcessor.process_candidate_intake
\* keeps the groups that have a resume and reports the others
ScanIntake ==
    /\ batchStage = "intake"
    /\ batchQueue' = WithResume(intake)
    /\ batchLog' = [batchLog EXCEPT
                      !.errors = {intake[i].candidate_name :
                                      i \in {k \in DOMAIN intake : intake[k].files = "no_resume"}}]
    /\ batchStage' = "loop"
    /\ UNCHANGED intake
    /\ UNCHANGED otherThanBatch

\* organize_candidate_files returned errors: process_candidates returns
\* its result at once
StopAtCandidate ==
    /\ batchStage = "loop"
    /\ batchQueue # <<>>
    /\ Head(batchQueue).files = "unreadable"
    /\ batchLog' = [batchLog EXCEPT
                      !.errors = @ \cup {Head(batchQueue).candidate_name},
                      !.organized = @ \cup {Head(batchQueue).candidate_name},
                      !.failed = @ \cup {Head(batchQueue).candidate_name},
                      !.stopped = TRUE]
    /\ batchStage' = "done"
    /\ UNCHANGED <<intake, batchQueue>>
    /\ UNCHANGED otherThanBatch

\* one pass of the loop for a candidate whose files were organized without
\* errors: evaluate_candidate with its retries, then save_evaluation_json
\* unless the evaluation still is an API error
ProcessCandidate ==
    /\ batchStage = "loop"
    /\ batchQueue # <<>>
    /\ Head(batchQueue).files = "ok"
    /\ \E api_issue \in BOOLEAN :
         batchLog' = [batchLog EXCEPT
                        !.organized = @ \cup {Head(batchQueue).candidate_name},
                        !.evaluated = @ \cup {Head(batchQueue).candidate_name},
                        !.processed = IF api_issue THEN @
                                      ELSE @ \cup {Head(batchQueue).candidate_name},
                        !.failed = IF api_issue THEN @ \cup {Head(batchQueue).candidate_name}
                                   ELSE @,
                        !.errors = IF api_issue THEN @ \cup {Head(batchQueue).candidate_name}
                                   ELSE @]
    /\ batchQueue' = Tail(batchQueue)
    /\ UNCHANGED <<intake, batchStage>>
    /\ UNCHANGED otherThanBatch

\* the loop is over: reports and the ProcessingResult
FinishBatch ==
    /\ batchStage = "loop"
    /\ batchQueue = <<>>
    /\ batchStage' = "done"
    /\ UNCHANGED <<intake, batchQueue, batchLog>>
    /\ UNCHANGED otherThanBatch

BatchNext ==
    \/ ScanIntake
    \/ StopAtCandidate
    \/ ProcessCandidate
    \/ FinishBatch

(***************************************************************************)
(* Specifications                                                          *)
(***************************************************************************)
PolicyIdle ==
    /\ filters = [id \in ConfiguredIds |-> NoRule]
    /\ polStage = "idle"
    /\ polPath = "none"
    /\ polRaw = NoEval
    /\ polIn = NoEval
    /\ polOut = NoEval
    /\ rulesApplied = [isList |-> FALSE, ids |-> <<>>]

OverlapIdle ==
    /\ ovA = NoIdentity
    /\ ovB = NoIdentity
    /\ ovRes = "unknown"

\* the policy layer
Init == PolicyInit /\ ResolverInit /\ OverlapIdle /\ DedupInit /\ FeedbackInit /\ ReevalIdle /\ BatchIdle
Next == PolicyNext
Spec == Init /\ [][Next]_vars

\* the directory resolver
InitResolver == PolicyIdle /\ ResolverInit /\ OverlapIdle /\ DedupInit /\ FeedbackInit /\ ReevalIdle /\ BatchIdle
SpecResolver == InitResolver /\ [][ResolverNext]_vars

\* the identity matcher
InitOverlap == PolicyIdle /\ ResolverInit /\ OverlapInit /\ DedupInit /\ FeedbackInit /\ ReevalIdle /\ BatchIdle
SpecOverlap == InitOverlap /\ [][OverlapNext]_vars

\* the evaluation deduplicator
InitDedup == PolicyIdle /\ ResolverInit /\ OverlapIdle /\ DedupInit /\ FeedbackInit /\ ReevalIdle /\ BatchIdle
SpecDedup == InitDedup /\ [][DedupNext]_vars

\* the reports and rankings built from the evaluations on disk
InitReports == PolicyIdle /\ ResolverInit /\ OverlapIdle /\ ReportsInit /\ FeedbackInit /\ ReevalIdle /\ BatchIdle
SpecReports == InitReports /\ [][ReportsNext]_vars

\* the feedback loop
InitFeedback == PolicyIdle /\ ResolverInit /\ OverlapIdle /\ DedupInit /\ FeedbackInit /\ ReevalIdle /\ BatchIdle
SpecFeedback == InitFeedback /\ [][FeedbackNext]_vars

\* intake: organizing, evaluating and storing submissions
InitIntake == PolicyIdle /\ ResolverInit /\ OverlapIdle /\ DedupInit /\ FeedbackInit /\ ReevalIdle /\ BatchIdle
SpecIntake == InitIntake /\ [][IntakeNext]_vars

\* intake with permanent rejections between the submissions
InitRejection == PolicyIdle /\ ResolverInit /\ OverlapIdle /\ DedupInit /\ FeedbackInit /\ ReevalIdle /\ BatchIdle
SpecRejection == InitRejection /\ [][RejectionNext]_vars

\* re-evaluation of a store left by intake
InitReeval == PolicyIdle /\ ReevalInit /\ OverlapIdle /\ DedupInit /\ FeedbackInit /\ BatchIdle
SpecReeval == InitReeval /\ [][ReevalNext]_vars

\* re-evaluation of a store left by intake, step by step
InitReevalSteps == PolicyIdle /\ ReevalInit /\ OverlapIdle /\ DedupInit /\ FeedbackInit /\ BatchIdle
SpecReevalSteps == InitReevalSteps /\ [][ReevalStepsNext]_vars

\* one process_candidates run over the intake directory
InitBatch ==
    PolicyIdle /\ ResolverInit /\ OverlapIdle /\ DedupInit /\ FeedbackInit /\ ReevalIdle
    /\ BatchInit
SpecBatch == InitBatch /\ [][BatchNext]_vars

(***************************************************************************)
(* Properties of the policy layer (Spec)                                   *)
(***************************************************************************)
Enforced == polPath \in {"inline", "enforcer"}

\* the rule ids the model reported to the enforcement that ran last
FiredIds ==
    IF polPath = "inline"
    THEN IF rulesApplied.isList THEN rulesApplied.ids ELSE InlineParseNotes(polIn.notes)
    ELSE _parse_applied_filters_from_notes(polIn.notes)

\* the rule set of the enforcement that ran last
RuleSet ==
    IF polPath = "inline" THEN InlineActionMap(filters) ELSE EnforcerActionMap(filters)

\* positions of the fired ids that are present in the rule set
FiredPresent == {i \in DOMAIN FiredIds : RuleSet[FiredIds[i]].present}

\* every fired rule has one of the five levels where it names a level, and
\* an integer where it deducts
FiredWellFormed ==
    \A i \in FiredPresent :
        LET r == RuleSet[FiredIds[i]]
        IN /\ r.set \in RecommendationType \cup {""}
           /\ r.cap \in RecommendationType \cup {""}
           /\ r.dkind # "bad"

RECURSIVE SumOver(_, _)
SumOver(S, f) ==
    IF S = {} THEN 0
    ELSE LET i == CHOOSE x \in S : TRUE IN f[i] + SumOver(S \ {i}, f)

\* sum of deduct_points over the fired rules present in the rule set
SumOfDeductPoints ==
    SumOver(FiredPresent,
            [i \in FiredPresent |->
                IF RuleSet[FiredIds[i]].dkind = "int" THEN RuleSet[FiredIds[i]].dpoints ELSE 0])

\* C1: after either enforcement the score is max(0, raw score - sum of the
\* deduct_points of the fired rules present in the rule set); it is never
\* negative and never above the raw score.
C1_ScoreDeductionFloored ==
    (Enforced /\ FiredWellFormed) =>
        /\ polOut.score = Max(0, polIn.score - SumOfDeductPoints)
        /\ polOut.score >= 0
        /\ polOut.score <= polIn.score

\* score 5 with 20 points of deductions has become 0
C1_Witness ==
    /\ polPath = "enforcer"
    /\ FiredWellFormed
    /\ polIn.score = 5
    /\ SumOfDeductPoints = 20
    /\ polOut.score = 0

FiredSets == {i \in FiredPresent : RuleSet[FiredIds[i]].set # ""}
FiredCaps == {i \in FiredPresent : RuleSet[FiredIds[i]].cap # ""}

\* the lowest cap_recommendation among the fired rules
StrictestCap ==
    LET caps == {RuleSet[FiredIds[i]].cap : i \in FiredCaps}
    IN CHOOSE c \in caps : \A d \in caps : RecIndex(c) <= RecIndex(d)

\* C2: when no fired rule carries set_recommendation, the recommendation
\* becomes the strictest cap_recommendation of the fired rules if the
\* model's recommendation is strictly better than that cap, and is left
\* unchanged otherwise.
C2_StrictestCapApplied ==
    (Enforced /\ FiredWellFormed /\ FiredSets = {}) =>
        polOut.rec = IF FiredCaps # {} /\ RecIndex(polIn.rec) > RecIndex(StrictestCap)
                     THEN StrictestCap
                     ELSE polIn.rec

\* the set_recommendation of the last fired rule that carries one
LastSetRecommendation ==
    LET i == CHOOSE k \in FiredSets : \A j \in FiredSets : j <= k
    IN RuleSet[FiredIds[i]].set

\* C3: when a fired rule present in the rule set carries
\* set_recommendation, the recommendation is the set_recommendation of the
\* last such rule, whatever the caps and the model's recommendation are.
C3_SetRecommendationWins ==
    (Enforced /\ FiredWellFormed /\ FiredSets # {}) =>
        polOut.rec = LastSetRecommendation

\* a forced recommendation was applied although a fired cap is lower
C3_Witness ==
    /\ polPath = "enforcer"
    /\ FiredWellFormed
    /\ FiredSets # {}
    /\ FiredCaps # {}
    /\ RecIndex(polIn.rec) > RecIndex(StrictestCap)
    /\ RecIndex(LastSetRecommendation) > RecIndex(StrictestCap)
    /\ polOut.rec = LastSetRecommendation
    /\ polOut.rec # polIn.rec

\* no fired rule of the rule set names one of the five levels
NoLevelFired ==
    \A i \in FiredPresent :
        /\ RuleSet[FiredIds[i]].set \notin RecommendationType
        /\ RuleSet[FiredIds[i]].cap \notin RecommendationType

\* no fired rule of the rule set has numeric deduct_points
NoDeductionFired == \A i \in FiredPresent : RuleSet[FiredIds[i]].dkind # "int"

\* C14: enforcement never turns the evaluation into a failed one; the
\* recommendation is left as it was when every fired rule is missing from
\* the rule set or names no valid level, and the score is left as it was
\* when every fired rule is missing or has no numeric deduct_points.
C14_UnusableRuleIsNoOp ==
    Enforced =>
        /\ polOut.concern = polIn.concern
        /\ NoLevelFired => polOut.rec = polIn.rec
        /\ NoDeductionFired => polOut.score = polIn.score

\* the evaluation has been written to evaluation.json
Persisted == polStage \in {"enforced", "stored"}

\* the configured rules the model response reports as fired, in
\* rules_applied or after "Failed filters:" at the start of the notes
ClaimedPresent ==
    {id \in ConfiguredIds :
        /\ filters[id].present
        /\ \/ \E i \in DOMAIN polRaw.notes.first : polRaw.notes.first[i] = id
           \/ rulesApplied.isList /\ \E i \in DOMAIN rulesApplied.ids : rulesApplied.ids[i] = id}

\* C13: when the model response reports exactly one configured rule as
\* fired and that rule is enabled and well formed, the stored evaluation
\* carries the rule's action: the score is lowered by at least its
\* deduct_points (not below 0), the recommendation is its
\* set_recommendation, or else is not better than its cap_recommendation.
C13_StoredEvaluationEnforced ==
    (Persisted /\ polRaw # NoEval) =>
        \A id \in ConfiguredIds :
            LET r == filters[id]
            IN (/\ ClaimedPresent = {id}
                /\ r.enabled
                /\ r.dkind # "bad"
                /\ r.set \in RecommendationType \cup {""}
                /\ r.cap \in RecommendationType \cup {""}) =>
                   /\ r.dkind = "int" => polOut.score <= Max(0, polRaw.score - r.dpoints)
                   /\ r.set # "" => polOut.rec = r.set
                   /\ (r.set = "" /\ r.cap # "") => RecIndex(polOut.rec) <= RecIndex(r.cap)

\* every rule the model response reports as fired is enabled and well formed
ClaimedWellFormed ==
    \A id \in ClaimedPresent :
        /\ filters[id].enabled
        /\ filters[id].dkind # "bad"
        /\ filters[id].set \in RecommendationType \cup {""}
        /\ filters[id].cap \in RecommendationType \cup {""}

\* sum of deduct_points over the rules the model response reports as fired,
\* each rule once
ClaimedDeductPoints ==
    SumOver(ClaimedPresent,
            [id \in ClaimedPresent |->
                IF filters[id].dkind = "int" THEN filters[id].dpoints ELSE 0])

\* the evaluation trigger_re_evaluation stores: evaluate_candidate with the
\* filters, then enforce_filters_on_evaluation
ReEvaluated == polStage = "enforced" /\ polRaw # NoEval

\* C24: the score a re-evaluation stores is max(0, raw score - sum of the
\* deduct_points of the rules the model reported), each rule counted once
\* however it was reported, and enforce_filters_on_evaluation applied to
\* the stored evaluation returns it unchanged.
C24_RulesAppliedOnce ==
    (ReEvaluated /\ ClaimedWellFormed) =>
        /\ polOut.score = Max(0, polRaw.score - ClaimedDeductPoints)
        /\ enforce_filters_on_evaluation(polOut, filters) = polOut

\* every configured rule among the fired ids has enabled false
OnlyDisabledFired ==
    \A i \in DOMAIN FiredIds :
        (FiredIds[i] \in ConfiguredIds /\ filters[FiredIds[i]].present) =>
            ~filters[FiredIds[i]].enabled

\* C28: when the only configured rules the model cites are disabled, either
\* enforcement leaves score and recommendation as they were.
C28_DisabledRuleIgnored ==
    (Enforced /\ OnlyDisabledFired) =>
        /\ polOut.score = polIn.score
        /\ polOut.rec = polIn.rec

(***************************************************************************)
(* Properties of the identity matcher (SpecOverlap)                        *)
(***************************************************************************)
\* C4: two identities overlap exactly when the sets of at least one of the
\* four categories intersect; the answer does not depend on the order of
\* the two arguments.
C4_OverlapIsSharedIdentifier ==
    ovRes # "unknown" =>
        /\ (ovRes = "overlap") <=> (\E key \in Keys : (ovA[key] \cap ovB[key]) # {})
        /\ (ovRes = "overlap") <=> _identifiers_overlap(ovB, ovA)

\* a single shared email, everything else disjoint, was found to overlap
C4_Witness ==
    /\ ovRes = "overlap"
    /\ Cardinality(ovA.emails \cap ovB.emails) = 1
    /\ \A key \in Keys \ {"emails"} : (ovA[key] \cap ovB[key]) = {}

(***************************************************************************)
(* Properties of the directory resolver (SpecResolver)                     *)
(***************************************************************************)
Resolved == last.name # ""

\* C5: when the first overlapping record found has the submitted name, the
\* resolver returns that record, creates no record and writes no warning.
C5_OverlapSameNameMerges ==
    (Resolved /\ last.first # NoDir /\ last.first = Plain(last.name)) =>
        /\ last.target = last.first
        /\ Existing(records) = Existing(before)
        /\ \A d \in Existing(before) : records[d].warning = before[d].warning

\* a submission was merged into the overlapping record of its own name
C5_Witness ==
    /\ Resolved
    /\ last.first = Plain(last.name)
    /\ Exists(last.first, before)
    /\ _identifiers_overlap(last.ids, LoadIdentity(before[last.first].meta))
    /\ last.target = last.first

\* C6: submitting again the declared name and the files of a candidate
\* stored under that name resolves to the candidate's record and leaves
\* the set of records unchanged (no new duplicate-flag record).
C6_ExactResubmissionIdempotent ==
    (/\ Resolved
     /\ Exists(Plain(last.name), before)
     /\ LoadIdentity(before[Plain(last.name)].meta) = last.ids) =>
        /\ last.target = Plain(last.name)
        /\ Existing(records) = Existing(before)

\* C7: when the first matching record has another name, the resolver
\* allocates the first unused name__DUPLICATE_CHECK[_n] location, keeps the
\* matching record, and writes into each of the two locations a warning
\* that names the other record.
C7_DuplicateFlagCrossLinked ==
    (Resolved /\ last.first # NoDir /\ last.first # Plain(last.name)) =>
        /\ ~Exists(last.target, before)
        /\ last.target = DuplicateCheckName(last.name, before)
        /\ Exists(last.target, records)
        /\ Exists(last.first, records)
        /\ records[last.first].meta = before[last.first].meta
        /\ records[last.target].warning = last.first
        /\ records[last.first].warning = last.target

\* C19: when no record overlaps the submission, a record of the submitted
\* name with identifiers on both sides makes the resolver create name__N
\* for the smallest N >= 2 not in use; such a record with no identifiers on
\* one side is reused; without such a record the submitted name is the
\* key of the record.
C19_NoOverlapResolution ==
    (Resolved /\ last.first = NoDir) =>
        IF Exists(Plain(last.name), before)
        THEN IF /\ \E key \in Keys : last.ids[key] # {}
                /\ \E key \in Keys : before[Plain(last.name)].meta[key] # <<>>
             THEN /\ \E n \in 2..(MaxDirs + 1) :
                        /\ last.target = Numbered(last.name, n)
                        /\ \A j \in 2..(n - 1) : Exists(Numbered(last.name, j), before)
                  /\ ~Exists(last.target, before)
                  /\ Existing(records) = Existing(before) \cup {last.target}
             ELSE /\ last.target = Plain(last.name)
                  /\ Existing(records) = Existing(before)
        ELSE /\ last.target = Plain(last.name)
             /\ Existing(records) = Existing(before) \cup {last.target}

\* a second person of a name, both with identifiers and none shared, was
\* stored as name__2 while the store held the name and one other record
C19_Witness ==
    /\ Resolved
    /\ last.first = NoDir
    /\ last.target = Numbered(last.name, 2)
    /\ Exists(Plain(last.name), before)
    /\ Cardinality(Existing(before)) = 2
    /\ ~Exists(last.target, before)
    /\ Exists(last.target, records)

\* C27: a submission with the declared name and the stored identifiers of
\* a record name__N, overlapping no other record, resolves to that record;
\* no directory is created and no warning is written.
C27_SuffixedResubmissionMerges ==
    Resolved =>
        \A n \in 2..(MaxDirs + 1) :
            LET d == Numbered(last.name, n)
            IN (/\ Exists(d, before)
                /\ LoadIdentity(before[d].meta) = last.ids
                /\ Matching(last.ids, before) = {d}) =>
                   /\ last.target = d
                   /\ Existing(records) = Existing(before)
                   /\ \A e \in Existing(before) : records[e].warning = before[e].warning

\* C29: after a submission resolved to a record that existed before, the
\* record's candidate_meta.json holds every identifier it held before, and
\* every identity that overlapped the record before still overlaps it.
C29_MergeKeepsIdentifiers ==
    (Resolved /\ Exists(last.target, before)) =>
        /\ \A key \in Keys :
               ToSet(before[last.target].meta[key]) \subseteq ToSet(records[last.target].meta[key])
        /\ \A identifiers \in SubmitIdentities :
               last.target \in Matching(identifiers, before) =>
                   last.target \in Matching(identifiers, records)

(***************************************************************************)
(* Properties of the evaluation deduplicator (SpecDedup)                   *)
(***************************************************************************)
\* C8: every evaluation of the result is one of the inputs, and no two
\* evaluations of the result are the same candidate.
C8_OnePerCandidate ==
    dedupDone =>
        /\ \A i \in DOMAIN unique : \E j \in DOMAIN evals : unique[i] = evals[j]
        /\ \A i, j \in DOMAIN unique :
               i # j => ~_are_same_candidate(unique[i].candidate_name, unique[j].candidate_name)

\* tokens of a name: lower-cased, trailing file-type suffix stripped, empty
\* tokens dropped
TokenCount(name) ==
    LET lowered == [i \in DOMAIN name |-> Lower(name[i])]
        stripped == IF Len(lowered) >= 2 /\ lowered[Len(lowered)] \in type_suffixes
                    THEN SubSeq(lowered, 1, Len(lowered) - 1)
                    ELSE lowered
    IN Len(NonEmptyParts(stripped))

\* C9: of two evaluations of the same candidate the one whose name has more
\* tokens is kept whatever the timestamps are; with equal token counts the
\* more recent one is kept.
C9_MoreTokensThenNewer ==
    (/\ dedupDone
     /\ Len(evals) = 2
     /\ _are_same_candidate(evals[1].candidate_name, evals[2].candidate_name)) =>
        LET t1 == TokenCount(evals[1].candidate_name)
            t2 == TokenCount(evals[2].candidate_name)
        IN /\ Len(unique) = 1
           /\ t1 > t2 => unique[1] = evals[1]
           /\ t2 > t1 => unique[1] = evals[2]
           /\ (t1 = t2 /\ evals[1].timestamp > evals[2].timestamp) => unique[1] = evals[1]
           /\ (t1 = t2 /\ evals[2].timestamp > evals[1].timestamp) => unique[1] = evals[2]

(***************************************************************************)
(* Properties of the feedback loop (SpecFeedback)                          *)
(***************************************************************************)
\* C10: insight regeneration was triggered at the 2nd, 4th, ... feedback
\* submission of the job and at no other submission.
C10_TriggeredOnEverySecondSubmission ==
    \A n \in 1..fbSubmitted : (n \in fbTriggers) <=> (n % 2 = 0)

\* C23: every submission so far has its feedback record on disk; the
\* records the last insight generation was given are those of all
\* submissions up to it, and the feedback_count stored with the insights is
\* the number of those submissions.
C23_InsightsUseAllFeedback ==
    /\ FeedbackRecords(fbRecords) = 1..fbSubmitted
    /\ fbPassed.at # 0 =>
          /\ fbPassed.records = 1..fbPassed.at
          /\ insights = fbPassed.at

(***************************************************************************)
(* Properties of reports and rankings (SpecReports)                        *)
(***************************************************************************)
\* C21: no two evaluations a report or ranking is built from are the same
\* candidate, whichever operation builds it.
C21_ReportsDeduplicated ==
    \A i, j \in DOMAIN report.evaluations :
        i # j => ~_are_same_candidate(report.evaluations[i].candidate_name,
                                      report.evaluations[j].candidate_name)

\* the directory name name__2 of a name collision, as its parts
CollisionName(name) == name \o <<"", "2">>

\* C30: when a directory and the directory of its name with the collision
\* suffix both have an evaluation, load_evaluations_for_job returns both
\* evaluations.
C30_CollisionRecordsBothListed ==
    report.by = "show_candidates" =>
        \A i, j \in DOMAIN evals :
            evals[j].candidate_name = CollisionName(evals[i].candidate_name) =>
                /\ \E k \in DOMAIN report.evaluations : report.evaluations[k] = evals[i]
                /\ \E k \in DOMAIN report.evaluations : report.evaluations[k] = evals[j]

(***************************************************************************)
(* Properties of re-evaluation (SpecReeval)                                *)
(***************************************************************************)
\* the directories evaluate_candidate was called for in the last run
Called == {reRun.calls[i] : i \in DOMAIN reRun.calls}

C15_DegradedRunStillEvaluates ==
    (reRun.ran /\ (~jobFiles.insights \/ ~jobFiles.context)) =>
        \A d \in Selected(records, rejected, reRun.given, reRun.names) :
            d \notin reRun.unreadable => d \in Called

\* C17: a run calls evaluate_candidate at most once for a directory and only
\* for selected ones, the calls follow one another in non-increasing order
\* of the score stored before the run (0 without evaluation), and every
\* candidate evaluated had a stored score at least that of every selected
\* candidate whose turn came later.
C17_HighestScoreFirst ==
    reRun.ran =>
        /\ \A i, j \in DOMAIN reRun.calls : i # j => reRun.calls[i] # reRun.calls[j]
        /\ Called \subseteq Selected(records, rejected, reRun.given, reRun.names)
        /\ \A i, j \in DOMAIN reRun.calls :
               i < j => StoredScore(reRun.prior, reRun.calls[i])
                            >= StoredScore(reRun.prior, reRun.calls[j])
        /\ \A k, m \in DOMAIN reRun.queue :
               (reRun.queue[k] \in Called /\ k < m) =>
                   StoredScore(reRun.prior, reRun.queue[k])
                       >= StoredScore(reRun.prior, reRun.queue[m])

\* a run evaluated a candidate that had an evaluation before one that had
\* none or a lower one
C17_Witness ==
    /\ reRun.ran
    /\ Len(reRun.calls) >= 2
    /\ StoredScore(reRun.prior, reRun.calls[1]) > StoredScore(reRun.prior, reRun.calls[2])
    /\ evalFiles[reRun.calls[2]].evaluation # NoScore

\* C18: a run that reaches the cleanup leaves the two warnings of a
\* duplicate flag in place while the flagged record and its duplicate-check
\* record both exist, and afterwards no warning names an absent directory.
C18_CleanupKeepsLiveWarnings ==
    (reRun.ran /\ jobFiles.context) =>
        /\ \A t, f \in DOMAIN before :
               (/\ t.kind = "dup"
                /\ before[t].warning = f
                /\ before[f].warning = Plain(t.base)
                /\ t \in DOMAIN records
                /\ f \in DOMAIN records) =>
                   /\ records[t].warning = before[t].warning
                   /\ records[f].warning = before[f].warning
        /\ \A d \in DOMAIN records :
               records[d].warning # NoDir => Exists(records[d].warning, records)

(***************************************************************************)
(* Properties of re-evaluation step by step (SpecReevalSteps)              *)
(***************************************************************************)
\* C22: wherever a run stops, every directory either has the evaluation and
\* history it had before the run or has a new evaluation with the one it
\* replaced as last entry of its history, and the directories the loop had
\* not reached are as before the run.
C22_InterruptKeepsProgress ==
    (reRun.ran /\ reStage = "stopped") =>
        /\ \A d \in DOMAIN evalFiles :
               \/ evalFiles[d] = reRun.prior[d]
               \/ /\ d \in Called
                  /\ evalFiles[d].evaluation # NoScore
                  /\ evalFiles[d].history = HistoryToSave(reRun.prior[d])
        /\ \A i \in DOMAIN reQueue :
               reQueue[i] \notin Called => evalFiles[reQueue[i]] = reRun.prior[reQueue[i]]

\* C26: no directory has the evaluation of a failed service call as its
\* evaluation.json, whether it had an evaluation before or not.
C26_ApiErrorNeverStored ==
    \A d \in DOMAIN evalFiles : evalFiles[d].evaluation # ApiErrorEvaluation

(***************************************************************************)
(* Properties of intake (SpecIntake)                                       *)
(***************************************************************************)
\* C12: a directory that has an evaluation keeps having one; whenever its
\* evaluation.json is replaced by another evaluation the replaced one is
\* appended to its history, and in every step the history either stays as
\* it is or grows by the replaced evaluation at its end.
C12_HistoryAppendOnly ==
    [][\A d \in DOMAIN evalFiles :
          /\ d \in DOMAIN evalFiles'
          /\ evalFiles[d].evaluation # NoScore => evalFiles'[d].evaluation # NoScore
          /\ (evalFiles[d].evaluation # NoScore
              /\ evalFiles'[d].evaluation # evalFiles[d].evaluation) =>
                 evalFiles'[d].history = Append(evalFiles[d].history, evalFiles[d].evaluation)
          /\ \/ evalFiles'[d].history = evalFiles[d].history
             \/ /\ evalFiles[d].evaluation # NoScore
                /\ evalFiles'[d].history =
                       Append(evalFiles[d].history, evalFiles[d].evaluation)]_vars

\* C20: a step of organize_candidate_files keeps every directory, leaves
\* every record other than its target as it was except that the flagged
\* record of a duplicate flag gets a warning, and leaves evaluation.json and
\* the evaluation history of every directory, the target included, as
\* they were.
C20_OrganizeKeepsOtherRecords ==
    [][intakeStage' = "organized" =>
          /\ \A d \in DOMAIN records :
                /\ d \in DOMAIN records'
                /\ d # last'.target => records'[d].meta = records[d].meta
                /\ (d # last'.target /\ d # last'.first) => records'[d] = records[d]
                /\ (d # last'.target /\ d = last'.first) => records'[d].warning # NoDir
          /\ \A d \in DOMAIN evalFiles :
                /\ d \in DOMAIN evalFiles'
                /\ evalFiles'[d] = evalFiles[d]]_vars

\* a submission was merged into a record that has an evaluation, or was
\* flagged as duplicate of one, and the evaluation is in place
C20_Witness ==
    /\ intakeStage = "organized"
    /\ last.first # NoDir
    /\ Exists(last.first, before)
    /\ evalFiles[last.first].evaluation # NoScore
    /\ \E d \in DOMAIN before : d # last.first /\ evalFiles[d].evaluation # NoScore

(***************************************************************************)
(* Properties of permanent rejection (SpecRejection)                       *)
(***************************************************************************)
\* C25: a directory marked rejected is still there and still marked
\* rejected after every step, so that a re-evaluation without candidate
\* list still leaves it out.
C25_RejectionPersists ==
    [][\A d \in DOMAIN rejected :
          rejected[d] =>
              /\ d \in DOMAIN rejected'
              /\ rejected'[d]
              /\ d \notin Selected(records', rejected', FALSE, {})]_vars

(***************************************************************************)
(* Properties of the intake batch (SpecBatch)                              *)
(***************************************************************************)
\* C16: when process_candidates has returned, every candidate whose files
\* failed is reported and has no stored evaluation, and every candidate
\* whose files are in order has been organized and evaluated, wherever it
\* stands in the batch.
C16_FailureExcludesOnlyThatCandidate ==
    batchStage = "done" =>
        \A i \in DOMAIN intake :
            /\ intake[i].files # "ok" =>
                   /\ intake[i].candidate_name \in batchLog.errors
                   /\ intake[i].candidate_name \notin batchLog.processed
            /\ intake[i].files = "ok" =>
                   /\ intake[i].candidate_name \in batchLog.organized
                   /\ intake[i].candidate_name \in batchLog.evaluated

====
